---- MODULE Spec2Model ----
(***************************************************************************)
(* A model of split_spreads.py: the geometry of the two split functions,   *)
(* the page loop of process_file over a heap of box objects, and the batch *)
(* run of main over a directory listing.                                   *)
(*                                                                         *)
(* Lengths are exact rationals.  A length is an integer number of units, *)
(* Unit units to the PDF point, and a ratio is a numerator over RatioDen; *)
(* Unit = 2 * RatioDen makes width * ratio and gutter / 2.0 exact, so the *)
(* arithmetic below is that of the source without floating-point rounding. *)
(***************************************************************************)
EXTENDS Integers, Sequences, FiniteSets, TLC

\* ------------------------------------------------------------------ bounds
RatioDen == 20
MaxDim == 3
MaxGutter == 6
MaxOffset == 2
MaxPages == 2
MaxStems == 2
MaxFiles == 3

Unit == 2 * RatioDen

\* Page sides in points: the small ones, and those of the 600 x 800 scenarios.
Widths == (1..MaxDim) \cup {600}
Heights == (1..MaxDim) \cup {800}
\* --ratio, as numerators over RatioDen: below 0, 0, 1/4, 1/2, 0.55, 1, above 1.
Ratios == {-(RatioDen \div 4), 0, RatioDen \div 4, RatioDen \div 2,
           (11 * RatioDen) \div 20, RatioDen, RatioDen + RatioDen \div 4}
\* --gutter and --offset in units (whole points, negative included).
Gutters == {g * Unit : g \in -MaxGutter..MaxGutter}
Offsets == {o * Unit : o \in -MaxOffset..MaxOffset}
Orientations == {"vertical", "horizontal"}

VARIABLES
    args,       \* the parsed command line: orientation, ratio, gutter, offset
    geo,        \* the geometry call: the page's sides, and the boxes returned
    platform,   \* whether Path.glob matches case-sensitively (POSIX) or not
    fsys,       \* the input path: its kind, the files there, their pages
    inputs,     \* main's list of discovered paths
    cur,        \* the position of main's loop in inputs
    heap,       \* the box objects (RectangleObject) alive, by identity
    reader,     \* the pages of the document being read
    writer,     \* the pages added to the output document
    idx,        \* the number of source pages process_file has handled
    outdir,     \* whether the output directory exists
    outfs,      \* the output directory's files
    trace,      \* what the run printed and which files it touched, in order
    pc          \* where the run is

vars == <<args, geo, platform, fsys, inputs, cur, heap, reader, writer, idx,
          outdir, outfs, trace, pc>>
progVars == <<platform, fsys, inputs, cur, heap, reader, writer, idx, outdir,
              outfs, trace, pc>>

\* ------------------------------------------------------------- arithmetic
\* Python's built-in max and min on two numbers.
max(a, b) == IF a >= b THEN a ELSE b
min(a, b) == IF a <= b THEN a ELSE b

\* width * ratio, ratio being ratio / RatioDen.
TimesRatio(length, ratio) == (length * ratio) \div RatioDen

Box(llx, lly, urx, ury) == [llx |-> llx, lly |-> lly, urx |-> urx, ury |-> ury]
\* No split made yet.
NoBoxes == <<>>

\* ----------------------------------------------------------------- geometry
\* VerticalBoxes with the right box's near edge left unclamped.
VerticalBoxesUnclampedRight(width, height, ratio, gutter, offset) ==
    LET split_x == TimesRatio(width, ratio) + offset
        left_right_pad == gutter \div 2
        left_urx == max(0, min(width, split_x - left_right_pad))
        right_llx == split_x + left_right_pad
    IN  <<Box(0, 0, left_urx, height), Box(right_llx, 0, width, height)>>

\* VerticalBoxes with the left box's far edge clamped from above only.
VerticalBoxesNoLowerClamp(width, height, ratio, gutter, offset) ==
    LET split_x == TimesRatio(width, ratio) + offset
        left_right_pad == gutter \div 2
        left_urx == min(width, split_x - left_right_pad)
        right_llx == min(width, max(0, split_x + left_right_pad))
    IN  <<Box(0, 0, left_urx, height), Box(right_llx, 0, width, height)>>

\* HorizontalBoxes with the whole gutter, not half of it, on each side.
HorizontalBoxesWholeGutter(width, height, ratio, gutter, offset) ==
    LET split_y == TimesRatio(height, ratio) + offset
        top_bottom_pad == gutter
        bottom_ury == max(0, min(height, split_y - top_bottom_pad))
        top_lly == min(height, max(0, split_y + top_bottom_pad))
    IN  <<Box(0, 0, width, bottom_ury), Box(0, top_lly, width, height)>>

\* split_page_vertically, lines 63-80: the left and the right box.
VerticalBoxes(width, height, ratio, gutter, offset) ==
    LET split_x == TimesRatio(width, ratio) + offset
        left_right_pad == gutter \div 2
        left_urx == max(0, min(width, split_x - left_right_pad))
        right_llx == min(width, max(0, split_x + left_right_pad))
    IN  <<Box(0, 0, left_urx, height), Box(right_llx, 0, width, height)>>

\* split_page_horizontally, lines 104-120: the bottom and the top box.
HorizontalBoxes(width, height, ratio, gutter, offset) ==
    LET split_y == TimesRatio(height, ratio) + offset
        top_bottom_pad == gutter \div 2
        bottom_ury == max(0, min(height, split_y - top_bottom_pad))
        top_lly == min(height, max(0, split_y + top_bottom_pad))
    IN  <<Box(0, 0, width, bottom_ury), Box(0, top_lly, width, height)>>

\* The dispatch of process_file, lines 151-154.
SplitBoxes(orientation, width, height, ratio, gutter, offset) ==
    IF orientation = "vertical"
    THEN VerticalBoxes(width, height, ratio, gutter, offset)
    ELSE HorizontalBoxes(width, height, ratio, gutter, offset)

\* -------------------------------------------------------- pages and boxes
\* A page is [mediabox, cropbox, rotation]: mediabox is the identity of its
\* /MediaBox object in heap, cropbox is <<id>> of its /CropBox or <<>> when
\* the page has none, rotation is its /Rotate in degrees.
NoCropBox == <<>>

\* RectangleObject.width and .height of the page's media box (lines 63-64).
PageWidth(h, page) == h[page.mediabox].urx - h[page.mediabox].llx
PageHeight(h, page) == h[page.mediabox].ury - h[page.mediabox].lly

\* copy.copy in the place of copy.deepcopy: the copy shares the page's boxes.
ShallowCopy(h, page) == [heap |-> h, page |-> page]

\* copy.deepcopy(page), lines 82-83: a page whose boxes are new objects
\* holding the values of the original's.
DeepCopy(h, page) ==
    LET h1 == Append(h, h[page.mediabox])
        h2 == IF page.cropbox = NoCropBox THEN h1
              ELSE Append(h1, h[page.cropbox[1]])
    IN  [heap |-> h2,
         page |-> [mediabox |-> Len(h1),
                   cropbox |-> IF page.cropbox = NoCropBox THEN NoCropBox
                               ELSE <<Len(h2)>>,
                   rotation |-> page.rotation]]

\* The page.cropbox getter of lines 86-90: the page's /CropBox, or, for a page
\* that has none, a new box with the media box's values that becomes its
\* /CropBox.
CropBox(h, page) ==
    IF page.cropbox # NoCropBox
    THEN [heap |-> h, page |-> page, id |-> page.cropbox[1]]
    ELSE LET h1 == Append(h, h[page.mediabox])
         IN  [heap |-> h1,
              page |-> [page EXCEPT !.cropbox = <<Len(h1)>>],
              id |-> Len(h1)]

\* box.lower_left = (x, y) and box.upper_right = (x, y): the setters write two
\* of the box's four numbers.
SetLowerLeft(h, id, x, y) == [h EXCEPT ![id].llx = x, ![id].lly = y]
SetUpperRight(h, id, x, y) == [h EXCEPT ![id].urx = x, ![id].ury = y]

\* Lines 86-87 (and 89-90, 125-126, 128-129): the copy's crop box set to box.
SetCropBox(h, page, box) ==
    LET g == CropBox(h, page)
        h1 == SetLowerLeft(g.heap, g.id, box.llx, box.lly)
        h2 == SetUpperRight(h1, g.id, box.urx, box.ury)
    IN  [heap |-> h2, page |-> g.page]

\* page.rotate(angle) storing the angle itself, not the sum.
RotateTo(page, angle) == [page EXCEPT !.rotation = angle]

\* page.rotate(angle): /Rotate becomes the rotation plus the angle.
Rotate(page, angle) == [page EXCEPT !.rotation = page.rotation + angle]

\* Lines 93-99 (and 131-137): rotate(0) on each half whose rotation is not
\* 0, inside a try whose except passes.  fault names the call that raises:
\* a raise by the first skips the second.
NormalizeRotation(first, second, fault) ==
    LET firstCalled == first.rotation # 0
        firstRaised == firstCalled /\ fault = "first"
        secondCalled == ~firstRaised /\ second.rotation # 0
        secondRaised == secondCalled /\ fault = "second"
    IN  <<IF firstCalled /\ ~firstRaised THEN Rotate(first, 0) ELSE first,
          IF secondCalled /\ ~secondRaised THEN Rotate(second, 0) ELSE second>>

Faults == {"none", "first", "second"}

\* split_page_vertically, lines 56-101.
split_page_vertically(h, page, ratio, gutter, offset, fault) ==
    LET boxes == VerticalBoxes(PageWidth(h, page), PageHeight(h, page),
                               ratio, gutter, offset)
        left == DeepCopy(h, page)
        right == DeepCopy(left.heap, page)
        l == SetCropBox(right.heap, left.page, boxes[1])
        r == SetCropBox(l.heap, right.page, boxes[2])
        halves == NormalizeRotation(l.page, r.page, fault)
    IN  [heap |-> r.heap, p1 |-> halves[1], p2 |-> halves[2]]

\* split_page_horizontally, lines 103-139.
split_page_horizontally(h, page, ratio, gutter, offset, fault) ==
    LET boxes == HorizontalBoxes(PageWidth(h, page), PageHeight(h, page),
                                 ratio, gutter, offset)
        bottom == DeepCopy(h, page)
        top == DeepCopy(bottom.heap, page)
        b == SetCropBox(top.heap, bottom.page, boxes[1])
        t == SetCropBox(b.heap, top.page, boxes[2])
        halves == NormalizeRotation(b.page, t.page, fault)
    IN  [heap |-> t.heap, p1 |-> halves[1], p2 |-> halves[2]]

\* Lines 159-160 with the second assignment left out.
ShrinkMediaBoxLowerLeftOnly(h, page) ==
    LET c == CropBox(h, page)
    IN  SetLowerLeft(c.heap, page.mediabox, c.heap[c.id].llx, c.heap[c.id].lly)

\* Lines 159-160: the media box's corners set from the crop box's, the lower
\* left first, then the upper right.
ShrinkMediaBox(h, page) ==
    LET c == CropBox(h, page)
        h1 == SetLowerLeft(c.heap, page.mediabox,
                           c.heap[c.id].llx, c.heap[c.id].lly)
        c2 == CropBox(h1, c.page)
    IN  SetUpperRight(c2.heap, page.mediabox,
                      c2.heap[c2.id].urx, c2.heap[c2.id].ury)

\* The two pages in the other order.
AddPagesSwapped(w, p1, p2) == Append(Append(w, p2), p1)

\* writer.add_page(p1); writer.add_page(p2), lines 162-163.
AddPages(w, p1, p2) == Append(Append(w, p1), p2)

\* ---------------------------------------------------------------- discovery
\* A file name is [stem, ext]: the stem a number (names sort by it), the
\* extension its letters after the dot.
Pdf == <<"p", "d", "f">>
PDF == <<"P", "D", "F">>
Exts == {Pdf, PDF, <<"P", "d", "f">>, <<"p", "D", "f">>, <<"t", "x", "t">>}
Names == [stem : 1..MaxStems, ext : Exts]

\* str.lower on one letter, and on an extension.
LowerChar(c) ==
    CASE c = "P" -> "p"
      [] c = "D" -> "d"
      [] c = "F" -> "f"
      [] OTHER -> c
Lower(ext) == [i \in 1..Len(ext) |-> LowerChar(ext[i])]

\* p.glob("*." + ext), line 50: the names the pattern matches, by the
\* platform's casing rule (case-sensitive on POSIX, not on Windows).
Glob(names, ext, caseSensitive) ==
    {n \in names : IF caseSensitive THEN n.ext = ext
                   ELSE Lower(n.ext) = Lower(ext)}

\* The order of sorted() on the paths of one directory.
NameLess(a, b) ==
    \/ a.stem < b.stem
    \/ a.stem = b.stem /\ \E i \in 1..Len(a.ext) :
          /\ \A j \in 1..(i - 1) : a.ext[j] = b.ext[j]
          /\ a.ext[i] # b.ext[i]
          /\ \/ a.ext[i] \in {"P", "D", "F"} /\ b.ext[i] \notin {"P", "D", "F"}
             \/ a.ext[i] \in {"d", "f", "p"} /\ b.ext[i] = "t"

RECURSIVE Sorted(_)
Sorted(S) ==
    IF S = {} THEN <<>>
    ELSE LET first == CHOOSE x \in S : \A y \in S : x = y \/ NameLess(x, y)
         IN  <<first>> \o Sorted(S \ {first})

\* The input path is [kind, names, docs]: kind "dir" (a directory holding the
\* files names), "file" (one regular file, names = {it}) or "other" (a path
\* that is neither); docs gives each file's pages.
TheFile(f) == CHOOSE n \in f.names : TRUE

\* iter_pdf_files, lines 46-54: the paths yielded, and whether the warning
\* was printed.
iter_pdf_files(f, caseSensitive) ==
    IF f.kind = "dir"
    THEN [files |-> Sorted(Glob(f.names, Pdf, caseSensitive))
                      \o Sorted(Glob(f.names, PDF, caseSensitive)),
          warned |-> FALSE]
    ELSE IF f.kind = "file" /\ Lower(TheFile(f).ext) = Pdf
    THEN [files |-> <<TheFile(f)>>, warned |-> FALSE]
    ELSE [files |-> <<>>, warned |-> TRUE]

\* ---------------------------------------------------------------- the run
\* A source page in points: its media box (w by h at (x, y)), whether it has
\* a crop box of its own (the media box less one point on the left), and its
\* rotation.
PageKinds ==
    { [w |-> 600, h |-> 800, x |-> 0, y |-> 0, crop |-> FALSE, rotation |-> 0],
      [w |-> 2, h |-> 3, x |-> 1, y |-> 1, crop |-> TRUE, rotation |-> 90],
      [w |-> 3, h |-> 2, x |-> 0, y |-> 0, crop |-> TRUE, rotation |-> 450],
      [w |-> 2, h |-> 2, x |-> 0, y |-> 0, crop |-> FALSE, rotation |-> 270] }
Docs == UNION {[1..n -> PageKinds] : n \in 0..MaxPages}

MediaOf(k) == Box(k.x * Unit, k.y * Unit, (k.x + k.w) * Unit, (k.y + k.h) * Unit)
CropOf(k) == Box((k.x + 1) * Unit, k.y * Unit, (k.x + k.w) * Unit, (k.y + k.h) * Unit)

\* PdfReader(in_path).pages, line 142: page i's media box is object 2i - 1
\* and its crop box, if it has one, object 2i.
LoadHeap(doc) ==
    [j \in 1..(2 * Len(doc)) |->
        IF j % 2 = 1 THEN MediaOf(doc[(j + 1) \div 2]) ELSE CropOf(doc[j \div 2])]
LoadPages(doc) ==
    [i \in 1..Len(doc) |->
        [mediabox |-> 2 * i - 1,
         cropbox |-> IF doc[i].crop THEN <<2 * i>> ELSE NoCropBox,
         rotation |-> doc[i].rotation]]

Event(ev, k) == [ev |-> ev, k |-> k]
Absent == [state |-> "absent", pages |-> 0]

\* inputs = list(iter_pdf_files(args.input)), line 190.
Discover ==
    /\ pc = "start"
    /\ LET found == iter_pdf_files(fsys, platform.caseSensitive)
       IN  /\ inputs' = found.files
           /\ trace' = IF found.warned
                       THEN Append(trace, Event("stderr: warning", 0))
                       ELSE trace
    /\ pc' = "check"
    /\ UNCHANGED <<args, geo, platform, fsys, cur, heap, reader, writer, idx,
                   outdir, outfs>>

\* Lines 191-193: nothing to process, the diagnostic and sys.exit(1).
NoInputs ==
    /\ pc = "check"
    /\ inputs = <<>>
    /\ trace' = Append(trace, Event("stderr: no PDF files found", 0))
    /\ pc' = "exit 1"
    /\ UNCHANGED <<args, geo, platform, fsys, inputs, cur, heap, reader,
                   writer, idx, outdir, outfs>>

\* Lines 195-198: the summary line, and the loop over inputs starts.
PrintSummary ==
    /\ pc = "check"
    /\ inputs # <<>>
    /\ trace' = Append(trace, Event("stdout: processing", Len(inputs)))
    /\ cur' = 1
    /\ pc' = "read"
    /\ UNCHANGED <<args, geo, platform, fsys, inputs, heap, reader, writer,
                   idx, outdir, outfs>>

\* process_file, lines 142-147: the reader and an empty writer.
OpenReader ==
    /\ pc = "read"
    /\ heap' = LoadHeap(fsys.docs[inputs[cur]])
    /\ reader' = LoadPages(fsys.docs[inputs[cur]])
    /\ writer' = <<>>
    /\ idx' = 0
    /\ trace' = Append(trace, Event("read", cur))
    /\ pc' = "loop"
    /\ UNCHANGED <<args, geo, platform, fsys, inputs, cur, outdir, outfs>>

\* Line 142 raising (an unreadable or malformed file): nothing catches it.
OpenReaderRaises ==
    /\ pc = "read"
    /\ trace' = Append(trace, Event("read raises", cur))
    /\ pc' = "raised"
    /\ UNCHANGED <<args, geo, platform, fsys, inputs, cur, heap, reader,
                   writer, idx, outdir, outfs>>

\* One iteration of the loop of lines 149-163.
SplitPage ==
    /\ pc = "loop"
    /\ idx < Len(reader)
    /\ \E fault \in Faults :
         LET page == reader[idx + 1]
             s == IF args.orientation = "vertical"
                  THEN split_page_vertically(heap, page, args.ratio,
                                             args.gutter, args.offset, fault)
                  ELSE split_page_horizontally(heap, page, args.ratio,
                                               args.gutter, args.offset, fault)
         IN  /\ heap' = ShrinkMediaBox(ShrinkMediaBox(s.heap, s.p1), s.p2)
             /\ writer' = AddPages(writer, s.p1, s.p2)
    /\ idx' = idx + 1
    /\ UNCHANGED <<args, geo, platform, fsys, inputs, cur, reader, outdir,
                   outfs, trace, pc>>

\* out_dir / (in_path.stem + suffix + in_path.suffix), lines 166-167: one
\* output name per input name; where names match case-insensitively, names
\* that differ in letter case only are one file.
OutFile(name) ==
    IF platform.caseSensitive THEN name
    ELSE [stem |-> name.stem, ext |-> Lower(name.ext)]

\* Lines 165-171 with no failure: the directory made, the file opened
\* (truncated), the document written, the path returned.
WriteOutput ==
    /\ pc = "loop"
    /\ idx = Len(reader)
    /\ outdir' = TRUE
    /\ outfs' = [outfs EXCEPT ![OutFile(inputs[cur])] =
                    [state |-> "complete", pages |-> Len(writer)]]
    /\ trace' = Append(trace, Event("written", cur))
    /\ pc' = "print"
    /\ UNCHANGED <<args, geo, platform, fsys, inputs, cur, heap, reader,
                   writer, idx>>

\* Lines 165-169 raising: mkdir (the directory cannot be made), open (the
\* file cannot be opened for writing) or write (the file, already truncated
\* by open, is left incomplete).  Nothing catches it.
WriteRaises ==
    /\ pc = "loop"
    /\ idx = Len(reader)
    /\ \E stage \in {"mkdir", "open", "write"} :
         /\ stage = "mkdir" => ~outdir
         /\ outdir' = (outdir \/ stage # "mkdir")
         /\ outfs' = IF stage = "write"
                     THEN [outfs EXCEPT ![OutFile(inputs[cur])] =
                              [state |-> "truncated", pages |-> 0]]
                     ELSE outfs
    /\ trace' = Append(trace, Event("write raises", cur))
    /\ pc' = "raised"
    /\ UNCHANGED <<args, geo, platform, fsys, inputs, cur, heap, reader,
                   writer, idx>>

\* Line 208, and the loop of line 198 going on or ending.
PrintWrote ==
    /\ pc = "print"
    /\ trace' = Append(trace, Event("stdout: wrote", cur))
    /\ IF cur < Len(inputs)
       THEN cur' = cur + 1 /\ pc' = "read"
       ELSE cur' = cur /\ pc' = "done"
    /\ UNCHANGED <<args, geo, platform, fsys, inputs, heap, reader, writer,
                   idx, outdir, outfs>>

\* Code that holds the halves process_file has made sets the upper right
\* corner of one half's crop box, with the setter of lines 87 and 90.
SetOutputCropBox ==
    /\ pc = "loop"
    /\ \E i \in 1..Len(writer), v \in {0} :
         LET c == CropBox(heap, writer[i])
         IN  /\ heap' = SetUpperRight(c.heap, c.id, v, v)
             /\ writer' = [writer EXCEPT ![i] = c.page]
    /\ UNCHANGED <<args, geo, platform, fsys, inputs, cur, reader, idx,
                   outdir, outfs, trace, pc>>

Next ==
    \/ Discover
    \/ NoInputs
    \/ PrintSummary
    \/ OpenReader
    \/ OpenReaderRaises
    \/ SplitPage
    \/ WriteOutput
    \/ WriteRaises
    \/ PrintWrote

NoGeo == [width |-> 0, height |-> 0, boxes |-> NoBoxes]
DefaultArgs == [orientation |-> "vertical", ratio |-> RatioDen \div 2,
                gutter |-> 0, offset |-> 0]

\* The state main starts in, but for the input path and the command line.
InitRun ==
    /\ geo = NoGeo
    /\ inputs = <<>>
    /\ cur = 0
    /\ heap = <<>>
    /\ reader = <<>>
    /\ writer = <<>>
    /\ idx = 0
    /\ outfs = [n \in Names |-> Absent]
    /\ trace = <<>>
    /\ pc = "start"

\* One input file, of any page content, under a range of command lines.
FileArgs == [orientation : Orientations,
             ratio : {RatioDen \div 2, (11 * RatioDen) \div 20},
             gutter : {0, Unit, MaxGutter * Unit},
             offset : {0, Unit}]
InitOneFile(argSet) ==
    /\ InitRun
    /\ args \in argSet
    /\ platform = [caseSensitive |-> TRUE]
    /\ outdir = FALSE
    /\ \E n \in {m \in Names : m.stem = 1} :
         \E d \in IF Lower(n.ext) = Pdf THEN Docs ELSE {<<>>} :
            fsys = [kind |-> "file", names |-> {n}, docs |-> [m \in {n} |-> d]]
InitFile == InitOneFile(FileArgs)

Spec == InitFile /\ [][Next]_vars

\* The same run, with the halves' crop boxes changed from outside.
CopyArgs == [orientation : Orientations, ratio : {RatioDen \div 2},
             gutter : {0, Unit}, offset : {0}]
InitCopy == InitOneFile(CopyArgs)
NextCopy ==
    \/ Next
    \/ SetOutputCropBox
SpecCopy == InitCopy /\ [][NextCopy]_vars

\* A directory, a file or another path, on either platform.  A file's pages
\* go by its stem; where names match case-insensitively a directory holds no
\* two names that differ in letter case only.
KindList == <<[w |-> 600, h |-> 800, x |-> 0, y |-> 0, crop |-> FALSE, rotation |-> 0],
              [w |-> 2, h |-> 3, x |-> 1, y |-> 1, crop |-> TRUE, rotation |-> 90]>>
BatchDoc(n) == [i \in 1..n.stem |-> KindList[((i - 1) % Len(KindList)) + 1]]
Listings(caseSensitive) ==
    {S \in SUBSET Names :
        /\ Cardinality(S) <= MaxFiles
        /\ caseSensitive \/ \A a, b \in S :
              (a.stem = b.stem /\ Lower(a.ext) = Lower(b.ext)) => a = b}
InitBatch ==
    /\ InitRun
    /\ args \in {DefaultArgs, [DefaultArgs EXCEPT !.orientation = "horizontal"]}
    /\ platform \in [caseSensitive : BOOLEAN]
    /\ outdir \in BOOLEAN
    /\ \/ \E S \in Listings(platform.caseSensitive) :
            fsys = [kind |-> "dir", names |-> S, docs |-> [n \in S |-> BatchDoc(n)]]
       \/ \E n \in Names :
            fsys = [kind |-> "file", names |-> {n}, docs |-> [m \in {n} |-> BatchDoc(m)]]
       \/ fsys = [kind |-> "other", names |-> {}, docs |-> <<>>]

SpecMain == InitBatch /\ [][Next]_vars

\* ------------------------------------------------- the geometry on its own
ArgSets == [orientation : Orientations, ratio : Ratios,
            gutter : Gutters, offset : Offsets]

InitGeo ==
    /\ args \in ArgSets
    /\ platform = [caseSensitive |-> TRUE]
    /\ fsys = [kind |-> "other", names |-> {}, docs |-> <<>>]
    /\ inputs = <<>> /\ cur = 0 /\ heap = <<>> /\ reader = <<>>
    /\ writer = <<>> /\ idx = 0 /\ outdir = FALSE
    /\ outfs = [n \in Names |-> Absent] /\ trace = <<>> /\ pc = "geometry"
    /\ geo \in [width : {w * Unit : w \in Widths},
                height : {h * Unit : h \in Heights},
                boxes : {NoBoxes}]

\* One call of the split function the orientation selects.
CallSplit ==
    /\ geo.boxes = NoBoxes
    /\ geo' = [geo EXCEPT !.boxes = SplitBoxes(args.orientation, geo.width,
                   geo.height, args.ratio, args.gutter, args.offset)]
    /\ UNCHANGED <<args, progVars>>

NextGeo == CallSplit

SpecGeo == InitGeo /\ [][NextGeo]_vars

\* ------------------------------------------------------ claims: geometry
Called == geo.boxes # NoBoxes
Vertical == args.orientation = "vertical"
\* The length of the split axis, the split position and the pad, as the
\* specification's section 4.1 defines them.
AxisLength == IF Vertical THEN geo.width ELSE geo.height
SplitPos == TimesRatio(AxisLength, args.ratio) + args.offset
Pad == args.gutter \div 2
\* The specification's one clamping rule, max(0, min(axisLength, value)).
Clamp(v) == max(0, min(AxisLength, v))
\* boxA's far edge and boxB's near edge on the split axis.
FarA == IF Vertical THEN geo.boxes[1].urx ELSE geo.boxes[1].ury
NearB == IF Vertical THEN geo.boxes[2].llx ELSE geo.boxes[2].lly
Points(n) == n * Unit
Scenario(orientation, ratio20, gutter, offset) ==
    /\ geo.width = Points(600) /\ geo.height = Points(800)
    /\ args.orientation = orientation
    /\ 20 * args.ratio = ratio20 * RatioDen
    /\ args.gutter = Points(gutter) /\ args.offset = Points(offset)

\* C1: both split functions return the boxes of section 4.1, each boundary
\* clamped by max(0, min(axisLength, value)): vertical (0, 0, clamp(splitPos -
\* pad), height) and (clamp(splitPos + pad), 0, width, height), horizontal
\* (0, 0, width, clamp(splitPos - pad)) and (0, clamp(splitPos + pad), width,
\* height); and the three 600 x 800 scenarios give the boxes the
\* specification lists.
C1_BoxesAsSpecified ==
    Called =>
      /\ Vertical =>
            geo.boxes = <<Box(0, 0, Clamp(SplitPos - Pad), geo.height),
                          Box(Clamp(SplitPos + Pad), 0, geo.width, geo.height)>>
      /\ ~Vertical =>
            geo.boxes = <<Box(0, 0, geo.width, Clamp(SplitPos - Pad)),
                          Box(0, Clamp(SplitPos + Pad), geo.width, geo.height)>>
      /\ Scenario("vertical", 10, 0, 0) =>
            geo.boxes = <<Box(0, 0, Points(300), Points(800)),
                          Box(Points(300), 0, Points(600), Points(800))>>
      /\ Scenario("vertical", 11, 6, 0) =>
            geo.boxes = <<Box(0, 0, Points(327), Points(800)),
                          Box(Points(333), 0, Points(600), Points(800))>>
      /\ Scenario("horizontal", 10, 0, 0) =>
            geo.boxes = <<Box(0, 0, Points(600), Points(400)),
                          Box(0, Points(400), Points(600), Points(800))>>

\* The ratio 0.55, gutter 6 scenario has been computed.
C1_Witness == Called /\ Scenario("vertical", 11, 6, 0)

\* The part of [splitPos - pad, splitPos + pad] that lies inside
\* [0, axisLength], as a length (0 when the two do not meet).
InsideLength ==
    max(0, min(SplitPos + Pad, AxisLength) - max(SplitPos - Pad, 0))

\* C3: for gutter >= 0 the gap on the split axis, boxB's near edge minus
\* boxA's far edge, is min(gutter, the length of [splitPos - pad, splitPos +
\* pad] inside the page); with ratio 0.5, gutter 0 and offset 0 the gap is 0
\* and the two boxes tile the page.
C3_GapIsClampedGutter ==
    (Called /\ args.gutter >= 0) =>
      /\ NearB - FarA = min(args.gutter, InsideLength)
      /\ (2 * args.ratio = RatioDen /\ args.gutter = 0 /\ args.offset = 0) =>
            /\ NearB = FarA
            /\ 2 * FarA = AxisLength
            /\ geo.boxes[1].llx = 0 /\ geo.boxes[1].lly = 0
            /\ geo.boxes[2].urx = geo.width /\ geo.boxes[2].ury = geo.height
            /\ Vertical => /\ geo.boxes[1].ury = geo.height
                           /\ geo.boxes[2].lly = 0
            /\ ~Vertical => /\ geo.boxes[1].urx = geo.width
                            /\ geo.boxes[2].llx = 0

\* A horizontal split whose gutter reaches past the page's edge: the gap is
\* positive and smaller than the gutter.
C3_Witness ==
    /\ Called /\ ~Vertical /\ args.gutter > 0
    /\ SplitPos + Pad > AxisLength
    /\ 0 < NearB - FarA /\ NearB - FarA < args.gutter

InPage(b) ==
    /\ 0 <= b.llx /\ b.llx <= b.urx /\ b.urx <= geo.width
    /\ 0 <= b.lly /\ b.lly <= b.ury /\ b.ury <= geo.height

\* C4: for every ratio, gutter and offset (out of range and negative
\* included) both boxes lie inside the page with llx <= urx and lly <= ury,
\* and when splitPos - pad < 0 boxA's far edge is 0.
C4_BoxesInsidePage ==
    Called =>
      /\ InPage(geo.boxes[1])
      /\ InPage(geo.boxes[2])
      /\ SplitPos - Pad < 0 => FarA = 0

\* A vertical split whose gutter pushes the left box's edge below 0.
C4_Witness ==
    /\ Called /\ Vertical /\ args.gutter > 0 /\ args.ratio > 0
    /\ SplitPos - Pad < 0
    /\ geo.boxes[1].urx = 0


\* ---------------------------------------------------- claims: process_file
\* The document process_file is reading, as it is on disk, and what the
\* split of its k-th page has to compute.
InFile == cur > 0 /\ pc \in {"loop", "print", "done", "raised"}
SourceDoc == fsys.docs[inputs[cur]]
ExpectedBoxes(k) ==
    SplitBoxes(args.orientation, SourceDoc[k].w * Unit, SourceDoc[k].h * Unit,
               args.ratio, args.gutter, args.offset)
\* What a page shows: its physical size, its visible area (the crop box, or
\* the media box for a page that has none) and its rotation.
VisibleArea(h, page) ==
    IF page.cropbox = NoCropBox THEN h[page.mediabox] ELSE h[page.cropbox[1]]
View(h, page) ==
    [media |-> h[page.mediabox], crop |-> VisibleArea(h, page),
     rotation |-> page.rotation]
OriginalView(k) ==
    [media |-> MediaOf(SourceDoc[k]),
     crop |-> IF SourceDoc[k].crop THEN CropOf(SourceDoc[k])
              ELSE MediaOf(SourceDoc[k]),
     rotation |-> SourceDoc[k].rotation]

\* C2: after k source pages the output holds exactly 2k pages, page 2k - 1
\* (counting from 1) being the first-computed and page 2k the
\* second-computed half of source page k; the file written holds 2N pages
\* for a source of N pages, N = 0 included.
C2_TwoPagesPerSourcePage ==
    InFile =>
      /\ Len(writer) = 2 * idx
      /\ idx <= Len(SourceDoc)
      /\ \A k \in 1..idx :
            /\ VisibleArea(heap, writer[2 * k - 1]) = ExpectedBoxes(k)[1]
            /\ VisibleArea(heap, writer[2 * k]) = ExpectedBoxes(k)[2]
      /\ pc \in {"print", "done"} =>
            /\ idx = Len(SourceDoc)
            /\ outfs[OutFile(inputs[cur])] =
                  [state |-> "complete", pages |-> 2 * Len(SourceDoc)]

\* A two-page document of two different pages, written as four pages.
C2_Witness ==
    /\ pc = "done"
    /\ Len(SourceDoc) = 2 /\ SourceDoc[1] # SourceDoc[2]
    /\ Len(writer) = 4
    /\ ExpectedBoxes(1)[1] # ExpectedBoxes(2)[1]

\* C6: every page added to the output has its media box equal to its crop
\* box, and that crop box is the box the geometry computed for that half.
C6_MediaBoxIsCropBox ==
    InFile =>
      \A i \in 1..Len(writer) :
         /\ writer[i].cropbox # NoCropBox
         /\ heap[writer[i].mediabox] = heap[writer[i].cropbox[1]]
         /\ heap[writer[i].cropbox[1]] = ExpectedBoxes((i + 1) \div 2)[2 - (i % 2)]

\* The halves of a page whose media box does not start at (0, 0) and which
\* has a crop box of its own: both boxes of each half were rewritten.
C6_Witness ==
    /\ InFile /\ idx >= 1
    /\ SourceDoc[1].crop /\ SourceDoc[1].x # 0
    /\ heap[writer[2].mediabox] # MediaOf(SourceDoc[1])
    /\ heap[writer[2].mediabox].llx < heap[writer[2].mediabox].urx

\* C7: both halves of every source page carry the source page's rotation,
\* zero or not, whichever rotate(0) call raises, and their boxes are those
\* computed from the unrotated width and height.
C7_RotationPreserved ==
    InFile =>
      \A k \in 1..idx :
         /\ writer[2 * k - 1].rotation = SourceDoc[k].rotation
         /\ writer[2 * k].rotation = SourceDoc[k].rotation
         /\ reader[k].rotation = SourceDoc[k].rotation
         /\ VisibleArea(heap, writer[2 * k - 1]) = ExpectedBoxes(k)[1]
         /\ VisibleArea(heap, writer[2 * k]) = ExpectedBoxes(k)[2]

\* A page rotated by 450 degrees, split horizontally.
C7_Witness ==
    /\ InFile /\ idx >= 1 /\ args.orientation = "horizontal"
    /\ SourceDoc[1].rotation = 450
    /\ writer[1].rotation = 450 /\ writer[2].rotation = 450

\* C5: while a document is processed no step changes what a source page
\* shows (physical size, visible area, rotation); a split leaves every half
\* made before as it was; and a change to one half's crop box changes no
\* other half.
SourceUnchanged ==
    \A k \in 1..Len(reader) : View(heap', reader'[k]) = View(heap, reader[k])
OtherHalvesUnchanged ==
    /\ Len(writer') > Len(writer) =>
          \A i \in 1..Len(writer) : View(heap', writer'[i]) = View(heap, writer[i])
    /\ \A i, j \in 1..Len(writer) :
          i # j => \/ View(heap', writer'[i]) = View(heap, writer[i])
                   \/ View(heap', writer'[j]) = View(heap, writer[j])
C5_CopiesAreIndependent ==
    [][pc = "loop" => (reader' = reader /\ SourceUnchanged /\ OtherHalvesUnchanged)]_vars

\* A half whose crop box was changed after the split: it no longer equals
\* its media box, while the source page shows what it showed on disk.
C5_Witness ==
    /\ pc = "loop" /\ idx >= 1
    /\ heap[writer[1].cropbox[1]] # heap[writer[1].mediabox]
    /\ View(heap, reader[1]) = OriginalView(1)
    /\ SourceDoc[1].crop

\* ------------------------------------------------------------ claims: main
Range(seq) == {seq[i] : i \in 1..Len(seq)}
Count(x, seq) == Cardinality({i \in 1..Len(seq) : seq[i] = x})
\* The positions in inputs at which events ev took place, in order.
RECURSIVE Positions(_, _)
Positions(ev, t) ==
    IF t = <<>> THEN <<>>
    ELSE IF Head(t).ev = ev THEN <<Head(t).k>> \o Positions(ev, Tail(t))
    ELSE Positions(ev, Tail(t))
First(ev, k) == CHOOSE i \in 1..Len(trace) : trace[i] = Event(ev, k)
Happened(ev, k) == \E i \in 1..Len(trace) : trace[i] = Event(ev, k)
\* The documents the input path holds: its regular files whose extension
\* is pdf in any letter case.
IsPdfName(n) == Lower(n.ext) = Pdf
Documents ==
    IF fsys.kind = "other" THEN {} ELSE {n \in fsys.names : IsPdfName(n)}
Discovered == pc # "start"
\* The documents read so far, in the order of their reads.
ReadNames ==
    [i \in 1..Len(Positions("read", trace)) |-> inputs[Positions("read", trace)[i]]]

\* C9: discovery finds every regular file whose extension is pdf in any
\* letter case, each exactly once, and no other file, for a single file and
\* for a directory alike; a path that is neither such a file nor a
\* directory gives the warning and no document.
C9_DiscoveryIgnoresCase ==
    Discovered =>
      /\ \A n \in Names : Count(n, inputs) = IF n \in Documents THEN 1 ELSE 0
      /\ (fsys.kind = "other" \/ (fsys.kind = "file" /\ Documents = {})) =>
            /\ inputs = <<>>
            /\ Happened("stderr: warning", 0)

\* C8: a run that discovers no document ends with exit code 1 and the
\* diagnostic on stderr, with no summary, no output file and no output
\* directory made; a run that discovers n >= 1 documents prints the summary
\* count n before it reads any, and one that completes has processed every
\* discovered document exactly once, in discovery order, with exactly one
\* confirmation line per output file written, each after the file's write.
C8_BatchRun ==
    /\ (Discovered /\ inputs = <<>>) => pc \in {"check", "exit 1"}
    /\ pc = "exit 1" =>
          /\ inputs = <<>>
          /\ trace[Len(trace)] = Event("stderr: no PDF files found", 0)
          /\ \A i \in 1..Len(trace) : trace[i].ev \in
                {"stderr: warning", "stderr: no PDF files found"}
          /\ \A n \in Names : outfs[n] = Absent
    /\ pc \in {"read", "loop", "print", "done", "raised"} =>
          /\ inputs # <<>>
          /\ trace[1] = Event("stdout: processing", Cardinality(Range(inputs)))
    /\ pc = "done" =>
          /\ \A n \in Range(inputs) : Count(n, ReadNames) = 1
          /\ \A i, j \in 1..Len(ReadNames) :
                i < j => First("read", Positions("read", trace)[i])
                            < First("read", Positions("read", trace)[j])
          /\ Positions("read", trace) = [i \in 1..Len(ReadNames) |-> i]
          /\ Len(Positions("stdout: wrote", trace)) =
                Cardinality({n \in Names : outfs[n].state # "absent"})
          /\ \A k \in 1..Len(ReadNames) :
                /\ Happened("written", k) /\ Happened("stdout: wrote", k)
                /\ First("written", k) < First("stdout: wrote", k)

\* C8 where Path.glob matches case-sensitively.
C8_BatchRunCaseSensitive == platform.caseSensitive => C8_BatchRun

\* C10: the read of document k + 1 starts only after the output of document
\* k was written; when the read or the write of document k raises, nothing
\* catches it, no confirmation line is printed for k, k is not read or
\* written again, the run does not end normally, and the outputs written for
\* the documents before k are as they were written.
C10_FailureSurfaces ==
    /\ \A i \in 1..Len(trace) :
          (trace[i].ev = "read" /\ trace[i].k > 1) =>
             \E j \in 1..(i - 1) : trace[j] = Event("written", trace[i].k - 1)
    /\ pc = "raised" =>
          /\ trace[Len(trace)] \in {Event("read raises", cur), Event("write raises", cur)}
          /\ ~Happened("stdout: wrote", cur)
          /\ Count(cur, Positions("read", trace)) <= 1
          /\ Count(cur, Positions("written", trace)) = 0
          /\ \A j \in 1..(cur - 1) :
                outfs[OutFile(inputs[j])] =
                   [state |-> "complete", pages |-> 2 * Len(fsys.docs[inputs[j]])]

\* C10 where Path.glob matches case-sensitively.
C10_FailureSurfacesCaseSensitive == platform.caseSensitive => C10_FailureSurfaces

====
